---- MODULE Spec2Model ----
(***************************************************************************)
(* A model of orbi (src/orbi.go): the publish / commit driver in main, the *)
(* local chain pointers kept under .orbi/<basename>/, and the concurrent   *)
(* multi-relay broadcast of publishFileNostr / publishToRelay.             *)
(*                                                                         *)
(* Program strings are TLA+ strings; "" is Go's empty string and, for an   *)
(* error value, nil.                                                       *)
(***************************************************************************)
EXTENDS Integers, Sequences, FiniteSets, Bags, TLC

VARIABLES
    root,   \* .orbi/<basename>/root_event_id, per basename: [exists, data]
    head,   \* .orbi/<basename>/HEAD, per basename: [exists, data]
    dirs,   \* the .orbi/<basename> directories that exist
    tracked, \* a .orbi/tracked_files list of base names, were one kept
    pc,     \* per process: position of the command in main / publishFileNostr
    args,   \* per process: command line (command, filePathArg, relays, message)
    loc,    \* per process: locals of main and the process's exit
    disk0,  \* per process: root, head and dirs as they were when the command started
    call,   \* per process: arguments of the publishFileNostr call
    ev,     \* per process: the nostr.Event built by publishFileNostr
    acc,    \* per process: wg, mu, successfulRelays, successCount, loop index
    task,   \* per process: one record per goroutine launched by the loop
    ret     \* per process: what publishFileNostr returned

diskVars == <<root, head, dirs, tracked>>
mainVars == <<pc, args, loc, disk0>>
pfnVars  == <<call, ev, acc, task, ret>>
vars     == <<root, head, dirs, tracked, pc, args, loc, disk0, call, ev, acc, task, ret>>

(***************************************************************************)
(* Bounds and input sets                                                   *)
(***************************************************************************)
\* longest -relays list a user passes (the default list has three entries)
MaxRelays == 2

Procs == {"p1", "p2"}
MainProc == "p1"

\* identifiers ev.Sign can produce (64 hex characters in the program)
EventIDs == {"1", "2"}

\* file path arguments; two of them share a base name
PathArgs == {"f", "d/f", "g"}

\* entries of a comma-split -relays value, before trimming
RawRelays == {" r"}

Messages == {"", "m"}

Cwd == "/w"
Home == "/h"

(***************************************************************************)
(* Constants of the program                                                *)
(***************************************************************************)
eventKindFile == 4444
rootEventIDFileName == "root_event_id"
headFileName == "HEAD"
defaultRelays == <<"wss://relay.damus.io", "wss://relay.primal.net", "wss://nos.lol">>

(***************************************************************************)
(* String helpers of the Go library, computed as the library computes them *)
(***************************************************************************)
Char(s, i) == SubSeq(s, i, i)

IsSpace(c) == c \in {" ", "\n", "\t"}

HasPrefix(s, pre) == Len(s) >= Len(pre) /\ SubSeq(s, 1, Len(pre)) = pre

RECURSIVE TrimLeft(_)
TrimLeft(s) ==
    IF Len(s) > 0 /\ IsSpace(Char(s, 1)) THEN TrimLeft(SubSeq(s, 2, Len(s))) ELSE s

RECURSIVE TrimRight(_)
TrimRight(s) ==
    IF Len(s) > 0 /\ IsSpace(Char(s, Len(s))) THEN TrimRight(SubSeq(s, 1, Len(s) - 1)) ELSE s

TrimSpace(s) == TrimRight(TrimLeft(s))

RECURSIVE StripTrailingSlashes(_)
StripTrailingSlashes(s) ==
    IF Len(s) > 0 /\ Char(s, Len(s)) = "/"
    THEN StripTrailingSlashes(SubSeq(s, 1, Len(s) - 1)) ELSE s

RECURSIVE LastElement(_)
LastElement(s) ==
    IF Len(s) = 0 THEN ""
    ELSE IF Char(s, Len(s)) = "/" THEN ""
    ELSE LastElement(SubSeq(s, 1, Len(s) - 1)) \o Char(s, Len(s))

\* filepath.Base
Base(path) ==
    IF path = "" THEN "."
    ELSE LET stripped == StripTrailingSlashes(path)
         IN  IF stripped = "" THEN "/" ELSE LastElement(stripped)

RECURSIVE ReplaceSeparator(_)
\* strings.ReplaceAll(s, "/", "_")
ReplaceSeparator(s) ==
    IF Len(s) = 0 THEN ""
    ELSE (IF Char(s, 1) = "/" THEN "_" ELSE Char(s, 1)) \o ReplaceSeparator(SubSeq(s, 2, Len(s)))

expandPath(path) ==
    LET p1 == IF HasPrefix(path, "~/") THEN Home \o "/" \o SubSeq(path, 3, Len(path)) ELSE path
    IN  IF HasPrefix(p1, "/") THEN p1 ELSE Cwd \o "/" \o p1

\* a directory named after the whole path
getLocalOrbiFileSpecificDirPathFull(targetFilePath) == ReplaceSeparator(targetFilePath)

\* the directory of a file's chain pointers, relative to <cwd>/.orbi
getLocalOrbiFileSpecificDirPath(targetFilePath) == ReplaceSeparator(Base(targetFilePath))

DirKeys == {getLocalOrbiFileSpecificDirPath(expandPath(a)) : a \in PathArgs}

(***************************************************************************)
(* Local pointer files                                                     *)
(***************************************************************************)
NoFile == [exists |-> FALSE, data |-> ""]
FileOf(data) == [exists |-> TRUE, data |-> data]

\* a read that looks in the wrong place and finds no file
readEventIDFromFileElsewhere(store, targetFilePath, ioerr) ==
    IF ioerr THEN [id |-> "", err |-> "failed to read"] ELSE [id |-> "", err |-> ""]

\* readEventIDFromFile on one pointer file; ioerr: the read fails for a
\* reason other than the file not existing
readEventIDFromFile(store, targetFilePath, ioerr) ==
    LET f == store[getLocalOrbiFileSpecificDirPath(targetFilePath)]
    IN  IF ioerr THEN [id |-> "", err |-> "failed to read"]
        ELSE IF ~f.exists THEN [id |-> "", err |-> ""]
        ELSE [id |-> TrimSpace(f.data), err |-> ""]

\* the bytes writeEventIDToFile puts in the pointer file
EventIDFileBytes(eventID) == eventID \o "\n"

\* what a direct read of the pointer shows
ReadRoot(k) == IF root[k].exists THEN TrimSpace(root[k].data) ELSE ""
ReadHead(k) == IF head[k].exists THEN TrimSpace(head[k].data) ELSE ""

(***************************************************************************)
(* Command line: the -relays flag (main, lines 280-288)                    *)
(***************************************************************************)
RECURSIVE Split(_)
\* strings.Split(s, ","): never returns an empty list
Split(s) ==
    IF Len(s) = 0 THEN <<"">>
    ELSE LET rest == Split(SubSeq(s, 2, Len(s)))
         IN  IF Char(s, 1) = "," THEN <<"">> \o rest
             ELSE <<Char(s, 1) \o rest[1]>> \o SubSeq(rest, 2, Len(rest))

RECURSIVE Join(_)
\* strings.Join(parts, ",")
Join(parts) ==
    IF Len(parts) = 0 THEN ""
    ELSE IF Len(parts) = 1 THEN parts[1]
    ELSE parts[1] \o "," \o Join(SubSeq(parts, 2, Len(parts)))

ParseRelays(relaysFlag) ==
    LET parsedRelays == Split(relaysFlag)
    IN  IF Len(parsedRelays) = 0 \/ (Len(parsedRelays) = 1 /\ parsedRelays[1] = "")
        THEN defaultRelays
        ELSE [i \in 1..Len(parsedRelays) |-> TrimSpace(parsedRelays[i])]

RawRelayLists == UNION {[1..n -> RawRelays] : n \in 1..MaxRelays}

\* values of the -relays flag: empty, or a comma-joined list
RelayFlags == {""} \cup {Join(q) : q \in RawRelayLists}

(***************************************************************************)
(* Key material (loadNostrSecretKey, lines 82-116)                         *)
(***************************************************************************)
HexKey == "00000000000000000000000000000000000000000000000000000000000000a1"
NotHexKey == "zz000000000000000000000000000000000000000000000000000000000000a1"
GoodNsec == "nsec1good"

\* contents of the secret file; NoFile: the file cannot be read
SecretFiles == {NoFile, FileOf(""), FileOf(" \n"), FileOf(HexKey \o "\n"),
                FileOf(NotHexKey), FileOf("abc"), FileOf(GoodNsec \o "\n"),
                FileOf("nsec1bad")}

HexDigits == {"0", "1", "2", "3", "4", "5", "6", "7", "8", "9",
              "a", "b", "c", "d", "e", "f", "A", "B", "C", "D", "E", "F"}

\* hex.DecodeString succeeds
IsHex(s) == Len(s) % 2 = 0 /\ \A i \in 1..Len(s) : Char(s, i) \in HexDigits

\* nip19.Decode of an nsec: the bech32 checksum decides
Nip19Decode(s) == IF s = GoodNsec THEN [sk |-> HexKey, err |-> ""]
                  ELSE [sk |-> "", err |-> "failed to decode nsec key"]

\* the 64-character branch without the hex.DecodeString test
loadNostrSecretKeyNoHexTest(secret, pubOk) ==
    LET skStr == TrimSpace(secret.data)
        fail(e) == [sk |-> "", pk |-> "", err |-> e]
        derive(sk) == IF pubOk THEN [sk |-> sk, pk |-> "pk", err |-> ""]
                      ELSE fail("failed to derive public key")
    IN  IF ~secret.exists THEN fail("failed to read secret key")
        ELSE IF skStr = "" THEN fail("secret key file is empty")
        ELSE IF HasPrefix(skStr, "nsec1")
             THEN IF Nip19Decode(skStr).err # "" THEN fail(Nip19Decode(skStr).err)
                  ELSE derive(Nip19Decode(skStr).sk)
        ELSE IF Len(skStr) = 64 THEN derive(skStr)
        ELSE fail("invalid secret key format")

\* pubOk: nostr.GetPublicKey derives a key
loadNostrSecretKey(secret, pubOk) ==
    LET skStr == TrimSpace(secret.data)
        fail(e) == [sk |-> "", pk |-> "", err |-> e]
        derive(sk) == IF pubOk THEN [sk |-> sk, pk |-> "pk", err |-> ""]
                      ELSE fail("failed to derive public key")
    IN  IF ~secret.exists THEN fail("failed to read secret key")
        ELSE IF skStr = "" THEN fail("secret key file is empty")
        ELSE IF HasPrefix(skStr, "nsec1")
             THEN IF Nip19Decode(skStr).err # "" THEN fail(Nip19Decode(skStr).err)
                  ELSE derive(Nip19Decode(skStr).sk)
        ELSE IF Len(skStr) = 64
             THEN IF ~IsHex(skStr) THEN fail("invalid hex secret key")
                  ELSE derive(skStr)
        ELSE fail("invalid secret key format")

(***************************************************************************)
(* Per-process state                                                       *)
(***************************************************************************)
\* rootID is existingRootID (publish) or rootEventID (commit); exit is -1
\* while the command runs
NoLoc == [sk |-> "", pk |-> "", rootID |-> "", headID |-> "", exit |-> -1, log |-> ""]
NoArgs == [command |-> "", filePathArg |-> "", relays |-> <<>>, message |-> ""]
NoCall == [filePath |-> "", sk |-> "", pk |-> "", relays |-> <<>>,
           rootEventIDHex |-> "", directParentEventIDHex |-> "", commitMessage |-> ""]
NoEvent == [PubKey |-> "", Kind |-> 0, Tags |-> <<>>, Content |-> "", ID |-> "", Sig |-> ""]
NoAcc == [wg |-> 0, mu |-> 0, successfulRelays |-> <<>>, successCount |-> 0, next |-> 1]
NoRet == [id |-> "", relays |-> <<>>, err |-> ""]
\* a goroutine of the broadcast loop: conn is the relay connection
\* ("none", "failed", "open", "closed"), sent the event handed to
\* relay.Publish, ok the result of publishToRelay
NoTask == [pc |-> "none", relayURL |-> "", conn |-> "none", sent |-> NoEvent, ok |-> FALSE]

Snapshot == [root |-> root, head |-> head, dirs |-> dirs]

\* log.Fatalf: message, then exit status 1
Fatal(p, r, msg) ==
    /\ pc' = [pc EXCEPT ![p] = "exited"]
    /\ loc' = [loc EXCEPT ![p] = [r EXCEPT !.exit = 1, !.log = msg]]

\* main returns: exit status 0
Return(p, r, msg) ==
    /\ pc' = [pc EXCEPT ![p] = "exited"]
    /\ loc' = [loc EXCEPT ![p] = [r EXCEPT !.exit = 0, !.log = msg]]

(***************************************************************************)
(* main, up to the command switch (lines 254-298)                          *)
(***************************************************************************)
\* A command starts: arguments, expandPath, os.Stat, the relay list.
\* fileExists is the outcome of os.Stat.
Start(p) ==
    /\ pc[p] = "idle"
    /\ \E command \in {"publish", "commit"}, a \in PathArgs, fl \in RelayFlags,
          m \in Messages, fileExists \in BOOLEAN :
          /\ args' = [args EXCEPT ![p] =
                        [command |-> command, filePathArg |-> a, relays |-> ParseRelays(fl),
                         message |-> IF command = "commit" THEN m ELSE ""]]
          /\ IF fileExists
             THEN /\ pc' = [pc EXCEPT ![p] = "loadKey"]
                  /\ loc' = [loc EXCEPT ![p] = NoLoc]
             ELSE Fatal(p, NoLoc, "File not found")
    /\ disk0' = [disk0 EXCEPT ![p] = Snapshot]
    /\ UNCHANGED pfnVars
    /\ UNCHANGED diskVars

\* lines 290-300: the keys, then the switch on the command
LoadKeys(p) ==
    /\ pc[p] = "loadKey"
    /\ \E secret \in SecretFiles, pubOk \in BOOLEAN :
          LET k == loadNostrSecretKey(secret, pubOk)
          IN  IF k.err # ""
              THEN Fatal(p, loc[p], "Could not load Nostr keys: " \o k.err)
              ELSE /\ pc' = [pc EXCEPT ![p] = args[p].command]
                   /\ loc' = [loc EXCEPT ![p].sk = k.sk, ![p].pk = k.pk]
    /\ UNCHANGED <<args, disk0>>
    /\ UNCHANGED diskVars
    /\ UNCHANGED pfnVars

(***************************************************************************)
(* publishFileNostr (lines 139-212) and publishToRelay (lines 118-137)     *)
(***************************************************************************)
\* lines 165-170
ChainTagsFlat(rootEventIDHex, directParentEventIDHex) ==
    (IF rootEventIDHex # ""
     THEN <<<<"e", rootEventIDHex, "", "root">>>> ELSE <<>>) \o
    (IF directParentEventIDHex # ""
     THEN <<<<"e", directParentEventIDHex, "", "reply">>>> ELSE <<>>)

ChainTags(rootEventIDHex, directParentEventIDHex) ==
    IF rootEventIDHex # ""
    THEN <<<<"e", rootEventIDHex, "", "root">>>> \o
         (IF directParentEventIDHex # ""
          THEN <<<<"e", directParentEventIDHex, "", "reply">>>> ELSE <<>>)
    ELSE <<>>

\* lines 172-174
MessageTags(commitMessage) ==
    IF commitMessage # "" THEN <<<<"m", commitMessage>>>> ELSE <<>>

\* lines 153-174: the unsigned event
BuildEvent(c) ==
    [PubKey |-> c.pk, Kind |-> eventKindFile,
     Tags |-> <<<<"f", Base(c.filePath)>>>> \o
              ChainTags(c.rootEventIDHex, c.directParentEventIDHex) \o
              MessageTags(c.commitMessage),
     Content |-> "content", ID |-> "", Sig |-> ""]

\* ev.Sign: the identifier (a hash of the event taken at nostr.Now()) and
\* the signature are set together
Sign(e, id) == [e EXCEPT !.ID = id, !.Sig = "sig"]

ErrRet(e) == [id |-> "", relays |-> <<>>, err |-> e]

\* lines 148-174: read the file, build the event
PfnBuild(p) ==
    /\ pc[p] = "pfnBuild"
    /\ \E readOk \in BOOLEAN :
          IF readOk
          THEN /\ ev' = [ev EXCEPT ![p] = BuildEvent(call[p])]
               /\ pc' = [pc EXCEPT ![p] = "pfnSign"]
               /\ ret' = ret
          ELSE /\ ret' = [ret EXCEPT ![p] = ErrRet("failed to read file")]
               /\ pc' = [pc EXCEPT ![p] = "pfnRet"]
               /\ ev' = ev
    /\ UNCHANGED <<args, loc, disk0, call, acc, task>>
    /\ UNCHANGED diskVars

\* the error of ev.Sign ignored: the loop runs on the event as it is
SignStepIgnoreError(p, signOk, id) ==
    /\ ev' = [ev EXCEPT ![p] = IF signOk THEN Sign(ev[p], id) ELSE ev[p]]
    /\ acc' = [acc EXCEPT ![p] = NoAcc]
    /\ task' = [task EXCEPT ![p] = [i \in 1..Len(call[p].relays) |-> NoTask]]
    /\ pc' = [pc EXCEPT ![p] = "pfnLoop"]
    /\ ret' = ret

\* line 176: a failed signature returns before anything is set up
SignStep(p, signOk, id) ==
    IF signOk
    THEN /\ ev' = [ev EXCEPT ![p] = Sign(ev[p], id)]
         /\ acc' = [acc EXCEPT ![p] = NoAcc]
         /\ task' = [task EXCEPT ![p] = [i \in 1..Len(call[p].relays) |-> NoTask]]
         /\ pc' = [pc EXCEPT ![p] = "pfnLoop"]
         /\ ret' = ret
    ELSE /\ ret' = [ret EXCEPT ![p] = ErrRet("failed to sign event")]
         /\ pc' = [pc EXCEPT ![p] = "pfnRet"]
         /\ UNCHANGED <<ev, acc, task>>

\* lines 176-188: sign, then the wait group, the mutex and the accumulator
PfnSign(p) ==
    /\ pc[p] = "pfnSign"
    /\ \E signOk \in BOOLEAN, id \in EventIDs : SignStep(p, signOk, id)
    /\ UNCHANGED <<args, loc, disk0, call>>
    /\ UNCHANGED diskVars

\* lines 191-203: one turn of the loop: wg.Add(1) and the go statement
PfnLaunch(p) ==
    /\ pc[p] = "pfnLoop"
    /\ acc[p].next <= Len(call[p].relays)
    /\ acc' = [acc EXCEPT ![p].wg = @ + 1, ![p].next = @ + 1]
    /\ task' = [task EXCEPT ![p][acc[p].next] =
                   [NoTask EXCEPT !.pc = "go", !.relayURL = call[p].relays[acc[p].next]]]
    /\ UNCHANGED <<ev, call, ret>>
    /\ UNCHANGED mainVars
    /\ UNCHANGED diskVars

AggregateErr == "failed to publish event to any of the specified relays"

\* the result without the test of line 207
AggregateNoTest(e, a) == [id |-> e.ID, relays |-> a.successfulRelays, err |-> ""]

\* lines 207-211: the result of the broadcast
Aggregate(e, a) ==
    IF a.successCount = 0
    THEN ErrRet(AggregateErr)
    ELSE [id |-> e.ID, relays |-> a.successfulRelays, err |-> ""]

\* a wait that also ends at the first success
WaitDoneFirstSuccess(p) ==
    acc[p].next > Len(call[p].relays) /\ (acc[p].wg = 0 \/ acc[p].successCount > 0)

\* line 205: wg.Wait returns when the counter is zero
WaitDone(p) == acc[p].next > Len(call[p].relays) /\ acc[p].wg = 0

\* lines 205-211
PfnWait(p) ==
    /\ pc[p] = "pfnLoop"
    /\ WaitDone(p)
    /\ ret' = [ret EXCEPT ![p] = Aggregate(ev[p], acc[p])]
    /\ pc' = [pc EXCEPT ![p] = "pfnRet"]
    /\ UNCHANGED <<args, loc, disk0, call, ev, acc, task>>
    /\ UNCHANGED diskVars

Outcomes == {"ok", "err", "timeout"}

TaskFrame == /\ UNCHANGED <<call, ev, ret>>
             /\ UNCHANGED mainVars
             /\ UNCHANGED diskVars

\* lines 119-123: nostr.RelayConnect under the shared deadline
TConnect(p, i) ==
    /\ task[p][i].pc = "go"
    /\ \E o \in Outcomes :
          task' = [task EXCEPT ![p][i] =
                      IF o = "ok" THEN [@ EXCEPT !.pc = "publish", !.conn = "open"]
                      ELSE [@ EXCEPT !.pc = "exit", !.conn = "failed", !.ok = FALSE]]
    /\ acc' = acc
    /\ TaskFrame

\* relay.Publish on a context without deadline: a relay that never
\* answers is waited for without end
TPublishNoTimeout(p, i) ==
    /\ task[p][i].pc = "publish"
    /\ \E o \in Outcomes :
          task' = [task EXCEPT ![p][i] =
                      IF o = "timeout" THEN [@ EXCEPT !.pc = "hung", !.sent = ev[p]]
                      ELSE [@ EXCEPT !.pc = "close", !.sent = ev[p], !.ok = (o = "ok")]]
    /\ acc' = acc
    /\ TaskFrame

\* lines 126-136: relay.Publish under the per-relay timeout
TPublish(p, i) ==
    /\ task[p][i].pc = "publish"
    /\ \E o \in Outcomes :
          task' = [task EXCEPT ![p][i] =
                      [@ EXCEPT !.pc = "close", !.sent = ev[p], !.ok = (o = "ok")]]
    /\ acc' = acc
    /\ TaskFrame

\* relay.Close called at the end of the success path instead of deferred
TCloseOnSuccess(p, i) ==
    /\ task[p][i].pc = "close"
    /\ task' = [task EXCEPT ![p][i] =
                   [@ EXCEPT !.conn = IF task[p][i].ok THEN "closed" ELSE "open",
                             !.pc = IF task[p][i].ok THEN "lock" ELSE "exit"]]
    /\ acc' = acc
    /\ TaskFrame

\* lines 124, 127: the deferred cancel and relay.Close, then line 196
TClose(p, i) ==
    /\ task[p][i].pc = "close"
    /\ task' = [task EXCEPT ![p][i] =
                   [@ EXCEPT !.conn = "closed",
                             !.pc = IF task[p][i].ok THEN "lock" ELSE "exit"]]
    /\ acc' = acc
    /\ TaskFrame

\* line 197
TLockNoMutex(p, i) ==
    /\ task[p][i].pc = "lock"
    /\ acc' = [acc EXCEPT ![p].mu = i]
    /\ task' = [task EXCEPT ![p][i].pc = "append"]
    /\ TaskFrame

TLock(p, i) ==
    /\ task[p][i].pc = "lock"
    /\ acc[p].mu = 0
    /\ acc' = [acc EXCEPT ![p].mu = i]
    /\ task' = [task EXCEPT ![p][i].pc = "append"]
    /\ TaskFrame

\* line 198
TAppendFirstOnly(p, i) ==
    /\ task[p][i].pc = "append"
    /\ acc' = [acc EXCEPT ![p].successfulRelays =
                  IF @ = <<>> THEN <<task[p][i].relayURL>> ELSE @]
    /\ task' = [task EXCEPT ![p][i].pc = "count"]
    /\ TaskFrame

TAppend(p, i) ==
    /\ task[p][i].pc = "append"
    /\ acc' = [acc EXCEPT ![p].successfulRelays = Append(@, task[p][i].relayURL)]
    /\ task' = [task EXCEPT ![p][i].pc = "count"]
    /\ TaskFrame

\* line 199
TCount(p, i) ==
    /\ task[p][i].pc = "count"
    /\ acc' = [acc EXCEPT ![p].successCount = @ + 1]
    /\ task' = [task EXCEPT ![p][i].pc = "unlock"]
    /\ TaskFrame

\* line 200
TUnlock(p, i) ==
    /\ task[p][i].pc = "unlock"
    /\ acc' = [acc EXCEPT ![p].mu = 0]
    /\ task' = [task EXCEPT ![p][i].pc = "exit"]
    /\ TaskFrame

\* line 194: the deferred wg.Done
TDone(p, i) ==
    /\ task[p][i].pc = "exit"
    /\ acc' = [acc EXCEPT ![p].wg = @ - 1]
    /\ task' = [task EXCEPT ![p][i].pc = "done"]
    /\ TaskFrame

(***************************************************************************)
(* The publish command (lines 301-328)                                     *)
(***************************************************************************)
\* the test of line 306 never taken
AlreadyPublishedNever(existingRootID) == FALSE

\* line 306
AlreadyPublished(existingRootID) == existingRootID # ""

\* the pointer directory of each path argument
KeyTable == [a \in PathArgs |-> getLocalOrbiFileSpecificDirPath(expandPath(a))]

KeyOf(p) == KeyTable[args[p].filePathArg]

\* the call of publishFileNostr from main
CallPfn(p, rootEventIDHex, directParentEventIDHex, commitMessage) ==
    /\ call' = [call EXCEPT ![p] =
                  [filePath |-> expandPath(args[p].filePathArg), sk |-> loc[p].sk,
                   pk |-> loc[p].pk, relays |-> args[p].relays,
                   rootEventIDHex |-> rootEventIDHex,
                   directParentEventIDHex |-> directParentEventIDHex,
                   commitMessage |-> commitMessage]]
    /\ pc' = [pc EXCEPT ![p] = "pfnBuild"]

\* lines 302-319: refuse when a root exists, else broadcast a first version
PublishCheck(p) ==
    /\ pc[p] = "publish"
    /\ \E ioerr \in BOOLEAN, headIoerr \in BOOLEAN :
          LET r == readEventIDFromFile(root, expandPath(args[p].filePathArg), ioerr)
              h == readEventIDFromFile(head, expandPath(args[p].filePathArg), headIoerr)
          IN  IF r.err # ""
              THEN /\ Fatal(p, loc[p], "Error checking publication status")
                   /\ call' = call
              ELSE IF AlreadyPublished(r.id)
              THEN /\ Return(p, [loc[p] EXCEPT !.rootID = r.id, !.headID = h.id],
                             "File has already been published")
                   /\ call' = call
              ELSE /\ loc' = [loc EXCEPT ![p].rootID = r.id]
                   /\ CallPfn(p, "", "", "")
    /\ UNCHANGED <<args, disk0, ev, acc, task, ret>>
    /\ UNCHANGED diskVars

WriteOutcomes == {"ok", "nodir", "nofile", "truncated"}

\* lines 320 and 361: publishFileNostr returned an error
BroadcastFailedNever(err) == FALSE

BroadcastFailed(err) == err # ""

\* writeEventIDToFile called with headFileName
writeEventIDToFileHead(key, eventID, o) ==
    /\ dirs' = IF o = "nodir" THEN dirs ELSE dirs \cup {key}
    /\ head' = IF o = "ok" THEN [head EXCEPT ![key] = FileOf(EventIDFileBytes(eventID))]
               ELSE IF o = "truncated" THEN [head EXCEPT ![key] = FileOf("")]
               ELSE head
    /\ root' = root
    /\ tracked' = tracked

\* the pointer written without ensureLocalOrbiFileSpecificDir
writeEventIDToFileNoDir(key, eventID, o) ==
    /\ dirs' = dirs
    /\ root' = IF o = "ok" THEN [root EXCEPT ![key] = FileOf(EventIDFileBytes(eventID))]
               ELSE IF o = "truncated" THEN [root EXCEPT ![key] = FileOf("")]
               ELSE root
    /\ UNCHANGED <<head, tracked>>

\* a write that leaves alone a root pointer that already holds an
\* identifier
writeEventIDToFileOnce(key, eventID, o) ==
    /\ dirs' = IF o = "nodir" THEN dirs ELSE dirs \cup {key}
    /\ root' = IF ReadRoot(key) # "" THEN root
               ELSE IF o = "ok" THEN [root EXCEPT ![key] = FileOf(EventIDFileBytes(eventID))]
               ELSE IF o = "truncated" THEN [root EXCEPT ![key] = FileOf("")]
               ELSE root
    /\ head' = head
    /\ tracked' = tracked

\* writeEventIDToFile (lines 230-237) on the root pointer: MkdirAll, then
\* ioutil.WriteFile, which creates or truncates the file before it writes
writeEventIDToFile(key, eventID, o) ==
    /\ dirs' = IF o = "nodir" THEN dirs ELSE dirs \cup {key}
    /\ root' = IF o = "ok" THEN [root EXCEPT ![key] = FileOf(EventIDFileBytes(eventID))]
               ELSE IF o = "truncated" THEN [root EXCEPT ![key] = FileOf("")]
               ELSE root
    /\ head' = head
    /\ tracked' = tracked

\* lines 320-328
PublishFinish(p) ==
    /\ pc[p] = "pfnRet"
    /\ args[p].command = "publish"
    /\ IF BroadcastFailed(ret[p].err)
       THEN /\ Fatal(p, loc[p], "Failed to publish")
            /\ UNCHANGED diskVars
       ELSE \E o \in WriteOutcomes :
               /\ writeEventIDToFile(KeyOf(p), ret[p].id, o)
               /\ IF o = "ok" THEN Return(p, loc[p], "Successfully published")
                  ELSE Fatal(p, loc[p], "Failed to save root event ID")
    /\ UNCHANGED <<args, disk0>>
    /\ UNCHANGED pfnVars

(***************************************************************************)
(* The commit command (lines 330-367)                                      *)
(***************************************************************************)
\* the test of line 335 never taken
NotYetPublishedNever(rootEventID) == FALSE

\* line 335
NotYetPublished(rootEventID) == rootEventID = ""

\* a commit that replies to the explicit HEAD when there is one
parentEventIDToReplyHead(rootEventID, explicitHeadID) ==
    IF explicitHeadID # "" THEN explicitHeadID ELSE rootEventID

\* line 339: the parent is the root, whatever HEAD holds
parentEventIDToReply(rootEventID, explicitHeadID) == rootEventID

\* lines 331-360
CommitCheck(p) ==
    /\ pc[p] = "commit"
    /\ \E ioerr \in BOOLEAN, headIoerr \in BOOLEAN :
          LET r == readEventIDFromFile(root, expandPath(args[p].filePathArg), ioerr)
              h == readEventIDFromFile(head, expandPath(args[p].filePathArg), headIoerr)
          IN  IF r.err # ""
              THEN /\ Fatal(p, loc[p], "Error reading root event ID")
                   /\ call' = call
              ELSE IF NotYetPublished(r.id)
              THEN /\ Fatal(p, [loc[p] EXCEPT !.rootID = r.id], "File has not yet been published")
                   /\ call' = call
              ELSE /\ loc' = [loc EXCEPT ![p].rootID = r.id, ![p].headID = h.id]
                   /\ CallPfn(p, r.id, parentEventIDToReply(r.id, h.id), args[p].message)
    /\ UNCHANGED <<args, disk0, ev, acc, task, ret>>
    /\ UNCHANGED diskVars

\* a commit that advances HEAD to the new event
CommitStoreHead(p, newEventID) ==
    /\ head' = [head EXCEPT ![KeyOf(p)] = FileOf(EventIDFileBytes(newEventID))]
    /\ UNCHANGED <<root, dirs, tracked>>

\* lines 365-367: a successful commit stores nothing
CommitStore(p, newEventID) == UNCHANGED diskVars

\* lines 361-367
CommitFinish(p) ==
    /\ pc[p] = "pfnRet"
    /\ args[p].command = "commit"
    /\ IF BroadcastFailed(ret[p].err)
       THEN /\ Fatal(p, loc[p], "Failed to commit new version")
            /\ UNCHANGED diskVars
       ELSE /\ CommitStore(p, ret[p].id)
            /\ Return(p, loc[p], "Successfully committed")
    /\ UNCHANGED <<args, disk0>>
    /\ UNCHANGED pfnVars

\* the process is gone: its memory is released, the files stay
Exit(p) ==
    /\ pc[p] = "exited"
    /\ pc' = [pc EXCEPT ![p] = "idle"]
    /\ args' = [args EXCEPT ![p] = NoArgs]
    /\ loc' = [loc EXCEPT ![p] = NoLoc]
    /\ disk0' = [disk0 EXCEPT ![p] = Snapshot]
    /\ call' = [call EXCEPT ![p] = NoCall]
    /\ ev' = [ev EXCEPT ![p] = NoEvent]
    /\ acc' = [acc EXCEPT ![p] = NoAcc]
    /\ task' = [task EXCEPT ![p] = <<>>]
    /\ ret' = [ret EXCEPT ![p] = NoRet]
    /\ UNCHANGED diskVars

(***************************************************************************)
(* Specifications                                                          *)
(***************************************************************************)
\* values of a HEAD file a user may have put in place
HeadFiles == {NoFile, FileOf("2\n")}

InitProcs ==
    /\ pc = [p \in Procs |-> "idle"]
    /\ args = [p \in Procs |-> NoArgs]
    /\ loc = [p \in Procs |-> NoLoc]
    /\ call = [p \in Procs |-> NoCall]
    /\ ev = [p \in Procs |-> NoEvent]
    /\ acc = [p \in Procs |-> NoAcc]
    /\ task = [p \in Procs |-> <<>>]
    /\ ret = [p \in Procs |-> NoRet]

InitDisk ==
    /\ \E h0 \in HeadFiles :
          /\ root = [k \in DirKeys |-> NoFile]
          /\ head = [k \in DirKeys |-> h0]
          /\ dirs = IF h0.exists THEN DirKeys ELSE {}
    /\ tracked = <<>>
    /\ disk0 = [p \in Procs |-> Snapshot]

Init == InitDisk /\ InitProcs

Tasks(p) == 1..Len(task[p])

\* the steps of one broadcast
PfnNext(p) ==
    \/ PfnBuild(p)
    \/ PfnSign(p)
    \/ PfnLaunch(p)
    \/ PfnWait(p)
    \/ \E i \in Tasks(p) : TConnect(p, i)
    \/ \E i \in Tasks(p) : TPublish(p, i)
    \/ \E i \in Tasks(p) : TClose(p, i)
    \/ \E i \in Tasks(p) : TLock(p, i)
    \/ \E i \in Tasks(p) : TAppend(p, i)
    \/ \E i \in Tasks(p) : TCount(p, i)
    \/ \E i \in Tasks(p) : TUnlock(p, i)
    \/ \E i \in Tasks(p) : TDone(p, i)

\* commands issued one after another by one process
Next ==
    \/ Start(MainProc)
    \/ LoadKeys(MainProc)
    \/ PublishCheck(MainProc)
    \/ PublishFinish(MainProc)
    \/ CommitCheck(MainProc)
    \/ CommitFinish(MainProc)
    \/ Exit(MainProc)
    \/ PfnNext(MainProc)

Spec == Init /\ [][Next]_vars

\* publishFileNostr called on its own, with any arguments
CallRelayLists == {<<>>} \cup {ParseRelays(fl) : fl \in RelayFlags}

InitCall ==
    /\ InitDisk
    /\ pc = [p \in Procs |-> IF p = MainProc THEN "pfnBuild" ELSE "idle"]
    /\ args = [p \in Procs |-> NoArgs]
    /\ loc = [p \in Procs |-> NoLoc]
    /\ \E a \in PathArgs, rs \in CallRelayLists, r \in {""} \cup EventIDs,
          d \in {""} \cup EventIDs, m \in Messages :
          call = [p \in Procs |->
                    IF p = MainProc
                    THEN [filePath |-> expandPath(a), sk |-> HexKey, pk |-> "pk",
                          relays |-> rs, rootEventIDHex |-> r,
                          directParentEventIDHex |-> d, commitMessage |-> m]
                    ELSE NoCall]
    /\ ev = [p \in Procs |-> NoEvent]
    /\ acc = [p \in Procs |-> NoAcc]
    /\ task = [p \in Procs |-> <<>>]
    /\ ret = [p \in Procs |-> NoRet]

NextCall == PfnNext(MainProc)

SpecCall == InitCall /\ [][NextCall]_vars

\* one broadcast of a first version, run to its end: every step that can
\* be taken is taken in the end, a relay operation because the relay
\* answers or its context's deadline passes (lines 126, 187)
InitLive ==
    /\ InitDisk
    /\ pc = [p \in Procs |-> IF p = MainProc THEN "pfnBuild" ELSE "idle"]
    /\ args = [p \in Procs |-> NoArgs]
    /\ loc = [p \in Procs |-> NoLoc]
    /\ \E rs \in CallRelayLists :
          call = [p \in Procs |->
                    IF p = MainProc
                    THEN [filePath |-> expandPath("f"), sk |-> HexKey, pk |-> "pk",
                          relays |-> rs, rootEventIDHex |-> "",
                          directParentEventIDHex |-> "", commitMessage |-> ""]
                    ELSE NoCall]
    /\ ev = [p \in Procs |-> NoEvent]
    /\ acc = [p \in Procs |-> NoAcc]
    /\ task = [p \in Procs |-> <<>>]
    /\ ret = [p \in Procs |-> NoRet]

SpecLive == InitLive /\ [][NextCall]_vars /\ WF_vars(NextCall)

\* two publish commands run as concurrent processes in one working
\* directory, each with its keys loaded and about to read the root pointer
\* (line 302); the second names the same file by either of its paths
MPPaths == {"f", "d/f"}

InitMP ==
    /\ InitDisk
    /\ pc = [p \in Procs |-> "publish"]
    /\ \E a \in MPPaths :
          args = [p \in Procs |->
                    [command |-> "publish",
                     filePathArg |-> IF p = MainProc THEN "f" ELSE a,
                     relays |-> ParseRelays(" r"), message |-> ""]]
    /\ loc = [p \in Procs |-> [NoLoc EXCEPT !.sk = HexKey, !.pk = "pk"]]
    /\ call = [p \in Procs |-> NoCall]
    /\ ev = [p \in Procs |-> NoEvent]
    /\ acc = [p \in Procs |-> NoAcc]
    /\ task = [p \in Procs |-> <<>>]
    /\ ret = [p \in Procs |-> NoRet]

NextMP ==
    \E p \in Procs :
        \/ PublishCheck(p)
        \/ PfnNext(p)
        \/ PublishFinish(p)

SpecMP == InitMP /\ [][NextMP]_vars

(***************************************************************************)
(* Properties                                                              *)
(***************************************************************************)
\* a command is in progress or has just exited
Active(p) == args[p].command # ""

\* the root pointer of the command's file as a read showed it when the
\* command started
StoredRoot0(p) ==
    LET f == disk0[p].root[KeyOf(p)]
    IN  IF f.exists THEN TrimSpace(f.data) ELSE ""

DiskUnchanged(p) == root = disk0[p].root /\ head = disk0[p].head /\ dirs = disk0[p].dirs

\* no relay connect and no relay publish was attempted by the command
NoNetwork(p) ==
    \A i \in Tasks(p) : task[p][i].conn = "none" /\ task[p][i].sent = NoEvent

\* the command never entered publishFileNostr
NoBroadcast(p) ==
    /\ pc[p] \in {"loadKey", "publish", "commit", "exited"}
    /\ call[p] = NoCall /\ ev[p] = NoEvent /\ task[p] = <<>> /\ ret[p] = NoRet

\* C1: a publish of a file whose stored root pointer is non-empty never
\* reaches the broadcast: no relay connect, no relay publish, whatever the
\* relay list and HEAD are.
C1_PublishRefusedNoNetwork ==
    \A p \in Procs :
        (Active(p) /\ args[p].command = "publish" /\ StoredRoot0(p) # "")
            => (NoNetwork(p) /\ NoBroadcast(p))

C1_Witness ==
    /\ pc[MainProc] = "exited"
    /\ args[MainProc].command = "publish"
    /\ StoredRoot0(MainProc) # ""
    /\ loc[MainProc].log = "File has already been published"
    /\ loc[MainProc].headID # ""
    /\ Len(args[MainProc].relays) = 3

\* C2: a commit of a file whose root pointer is absent or empty never
\* reaches the broadcast: no event is built, signed or sent, and the root
\* and HEAD pointers stay as they were.
C2_CommitRefusedNoNetwork ==
    \A p \in Procs :
        (Active(p) /\ args[p].command = "commit" /\ StoredRoot0(p) = "")
            => (NoNetwork(p) /\ NoBroadcast(p) /\ DiskUnchanged(p))

C2_Witness ==
    /\ pc[MainProc] = "exited"
    /\ args[MainProc].command = "commit"
    /\ root[KeyOf(MainProc)] = FileOf("")
    /\ loc[MainProc].log = "File has not yet been published"
    /\ loc[MainProc].exit = 1

\* the relays that took the event in this command
Accepted(p) == {i \in Tasks(p) : task[p][i].ok}

\* C3: a publish of a file with no stored root that completes with status 0
\* leaves a root pointer that reads back non-empty and equal to the
\* identifier of the event every accepting relay received.
C3_PublishStoresBroadcastID ==
    \A p \in Procs :
        (/\ Active(p) /\ pc[p] = "exited" /\ args[p].command = "publish"
         /\ loc[p].exit = 0 /\ StoredRoot0(p) = "")
            => /\ ReadRoot(KeyOf(p)) # ""
               /\ ReadRoot(KeyOf(p)) = ev[p].ID
               /\ Accepted(p) # {}
               /\ \A i \in Accepted(p) : task[p][i].sent.ID = ReadRoot(KeyOf(p))

C3_Witness ==
    /\ pc[MainProc] = "exited"
    /\ args[MainProc].command = "publish"
    /\ loc[MainProc].exit = 0
    /\ StoredRoot0(MainProc) = ""
    /\ ReadRoot(KeyOf(MainProc)) = "2"
    /\ Cardinality(Accepted(MainProc)) = 2

\* C4: once the root pointer of a file reads non-empty, no step of any
\* publish or commit changes what it reads.
C4_RootWriteOnce ==
    [][\A k \in DirKeys : ReadRoot(k) # "" => ReadRoot(k)' = ReadRoot(k)]_vars

\* a publish that got as far as its check on a file whose root is set, after
\* an earlier publish of the other file
C4_Witness ==
    /\ pc[MainProc] = "exited"
    /\ args[MainProc].command = "publish"
    /\ args[MainProc].filePathArg = "d/f"
    /\ loc[MainProc].rootID = "1"
    /\ ReadRoot("f") = "1"
    /\ ReadRoot("g") = "2"

HasTag(e, tag) == \E j \in 1..Len(e.Tags) : e.Tags[j] = tag

\* the "e" tags of an event
ETags(e) == {j \in 1..Len(e.Tags) : e.Tags[j][1] = "e"}

\* C5: every event a commit hands to a relay carries exactly two chain
\* tags: a root tag and a reply tag, both naming the file's stored root,
\* whatever HEAD holds.
C5_FlatAnchoring ==
    \A p \in Procs :
        (Active(p) /\ args[p].command = "commit") =>
            \A i \in Tasks(p) :
                task[p][i].sent # NoEvent =>
                    /\ ReadRoot(KeyOf(p)) # ""
                    /\ HasTag(task[p][i].sent, <<"e", ReadRoot(KeyOf(p)), "", "root">>)
                    /\ HasTag(task[p][i].sent, <<"e", ReadRoot(KeyOf(p)), "", "reply">>)
                    /\ Cardinality(ETags(task[p][i].sent)) = 2

C5_Witness ==
    /\ args[MainProc].command = "commit"
    /\ ReadRoot(KeyOf(MainProc)) = "1"
    /\ ReadHead(KeyOf(MainProc)) = "2"
    /\ loc[MainProc].headID = "2"
    /\ \E i \in Tasks(MainProc) : task[MainProc][i].ok /\ task[MainProc][i].sent.ID = "2"

\* the number of entries of a list equal to u
Count(list, u) == Cardinality({j \in 1..Len(list) : list[j] = u})

\* the broadcast ran to its join and returned
BroadcastReturned(p) == pc[p] \in {"pfnRet", "exited"} /\ ev[p].Sig # ""

\* C6: a broadcast over n relay entries of which k attempts succeed returns,
\* when k >= 1, no error, the signed event's identifier and a list of k
\* entries holding each URL as many times as attempts on it succeeded; when
\* k = 0 (n = 0 included) it returns the aggregate error, an empty
\* identifier and no list.
C6_BroadcastAggregation ==
    \A p \in Procs :
        BroadcastReturned(p) =>
            IF Accepted(p) # {}
            THEN /\ ret[p].err = ""
                 /\ ret[p].id = ev[p].ID /\ ret[p].id # ""
                 /\ Len(ret[p].relays) = Cardinality(Accepted(p))
                 /\ \A u \in {call[p].relays[i] : i \in Tasks(p)} :
                       Count(ret[p].relays, u) =
                           Cardinality({i \in Accepted(p) : call[p].relays[i] = u})
            ELSE /\ ret[p].err = AggregateErr
                 /\ ret[p].id = ""
                 /\ ret[p].relays = <<>>

\* one of two attempts on the same URL succeeded
C6_Witness ==
    /\ pc[MainProc] = "pfnRet"
    /\ call[MainProc].relays = <<"r", "r">>
    /\ Accepted(MainProc) = {2}
    /\ task[MainProc][1].conn = "closed"
    /\ ret[MainProc].relays = <<"r">>

\* C7: when no relay accepted the event of a publish or commit, the command
\* exits with status 1 and root, HEAD and the pointer directories are what
\* they were when it started; after such a publish the root still reads
\* empty.
C7_AggregateFailureWritesNothing ==
    \A p \in Procs :
        (Active(p) /\ BroadcastReturned(p) /\ Accepted(p) = {}) =>
            /\ DiskUnchanged(p)
            /\ pc[p] = "exited" => (loc[p].exit = 1 /\ loc[p].log \in
                                      {"Failed to publish", "Failed to commit new version"})
            /\ args[p].command = "publish" => ReadRoot(KeyOf(p)) = ""

C7_Witness ==
    /\ pc[MainProc] = "exited"
    /\ args[MainProc].command = "publish"
    /\ ret[MainProc].err = AggregateErr
    /\ loc[MainProc].exit = 1
    /\ Len(task[MainProc]) = 3
    /\ \A i \in Tasks(MainProc) : task[MainProc][i].pc = "done"
    /\ task[MainProc][1].conn = "failed"
    /\ task[MainProc][2].conn = "closed"

\* C8: HEAD is never written, and from its start to its exit a commit,
\* whether its broadcast succeeds or fails, leaves the root pointer
\* unchanged too.
C8_CommitFrame ==
    \A p \in Procs :
        /\ head = disk0[p].head
        /\ (Active(p) /\ args[p].command = "commit") => root = disk0[p].root

C8_Witness ==
    /\ pc[MainProc] = "exited"
    /\ args[MainProc].command = "commit"
    /\ loc[MainProc].exit = 0
    /\ ret[MainProc].id = "2"
    /\ ReadRoot(KeyOf(MainProc)) = "1"
    /\ ~head[KeyOf(MainProc)].exists

\* the command got past the keys and met a state error
StateError(p) ==
    /\ Active(p) /\ pc[p] = "exited" /\ loc[p].sk # ""
    /\ \/ args[p].command = "commit" /\ StoredRoot0(p) = ""
       \/ args[p].command = "publish" /\ StoredRoot0(p) # ""

\* C9: a commit with no root and a publish with a root each end with a
\* non-zero exit status and a message.
C9_StateErrorsFatal ==
    \A p \in Procs : StateError(p) => (loc[p].exit # 0 /\ loc[p].log # "")

\* C10: a relay connect or publish happens only once the event is signed,
\* and with the signed event and its identifier; a failed signature returns
\* an error, no identifier, and leaves no relay attempt behind.
C10_NoUnsignedBroadcast ==
    \A p \in Procs :
        /\ \A i \in Tasks(p) :
              /\ task[p][i].pc # "none" => (ev[p].Sig # "" /\ ev[p].ID \in EventIDs)
              /\ task[p][i].sent # NoEvent =>
                    (task[p][i].sent = ev[p] /\ task[p][i].sent.Sig # ""
                     /\ task[p][i].sent.ID \in EventIDs)
        /\ ev[p].ID # "" <=> ev[p].Sig # ""
        /\ ret[p].err = "failed to sign event" =>
              (ret[p].id = "" /\ ev[p].ID = "" /\ task[p] = <<>>)

C10_Witness ==
    /\ pc[MainProc] = "pfnLoop"
    /\ ev[MainProc].Sig # ""
    /\ Len(task[MainProc]) = 2
    /\ task[MainProc][1].sent = ev[MainProc]
    /\ task[MainProc][2].pc = "go"


\* the secret keys of the model that are 64 hex characters
WellFormedKeys ==
    {k \in {HexKey} \cup {TrimSpace(f.data) : f \in SecretFiles} : Len(k) = 64 /\ IsHex(k)}

\* the messages of a command that stopped at the keys
KeyFailures ==
    {"Could not load Nostr keys: " \o e :
        e \in {"failed to read secret key", "secret key file is empty",
               "failed to decode nsec key", "invalid hex secret key",
               "invalid secret key format", "failed to derive public key"}}

\* C11: a command whose secret file is missing, empty or malformed exits
\* with status 1 at the keys, before publishFileNostr is entered, before any
\* relay is tried and with root, HEAD and directories untouched; a command
\* that goes on holds a well-formed key.
C11_KeyFailureAbortsEarly ==
    \A p \in Procs :
        (Active(p) /\ pc[p] # "loadKey" /\ loc[p].log # "File not found") =>
            IF loc[p].sk \in WellFormedKeys
            THEN loc[p].log \notin KeyFailures
            ELSE /\ pc[p] = "exited" /\ loc[p].exit = 1
                 /\ loc[p].log \in KeyFailures
                 /\ NoBroadcast(p) /\ NoNetwork(p) /\ DiskUnchanged(p)

\* a commit of a published file stopped by a key that is not hex
C11_Witness ==
    /\ pc[MainProc] = "exited"
    /\ args[MainProc].command = "commit"
    /\ StoredRoot0(MainProc) # ""
    /\ loc[MainProc].log = "Could not load Nostr keys: invalid hex secret key"
    /\ loc[MainProc].exit = 1


\* a publish that started with no root and ended with status 0
FirstPublishDone(p) ==
    /\ Active(p) /\ pc[p] = "exited" /\ args[p].command = "publish"
    /\ loc[p].exit = 0 /\ StoredRoot0(p) = ""

\* C12 as claimed: after a successful first publish the base name is in the
\* tracked-file list, and the list holds every published base name once.
C12_TrackedFileList ==
    /\ \A p \in Procs : FirstPublishDone(p) => Count(tracked, KeyOf(p)) = 1
    /\ \A k \in DirKeys : ReadRoot(k) # "" => Count(tracked, k) = 1

\* C12 as the program has it: a successful first publish records the file
\* only as the directory .orbi/<basename> holding root_event_id; every
\* published base name has that one directory, and no tracked-file list is
\* written.
C12_PublishedFileHasDirectory ==
    /\ \A p \in Procs :
          FirstPublishDone(p) => (KeyOf(p) \in dirs /\ root[KeyOf(p)].exists)
    /\ \A k \in DirKeys : ReadRoot(k) # "" => k \in dirs
    /\ tracked = <<>>

\* both base names published, each with its directory
C12_Witness ==
    /\ FirstPublishDone(MainProc)
    /\ \A k \in DirKeys : ReadRoot(k) # "" /\ ~head[k].exists
    /\ dirs = DirKeys


\* task i can take its next step now, with either outcome where it has one
CanProceed(p, i) ==
    CASE task[p][i].pc = "go" ->
            /\ ENABLED (TConnect(p, i) /\ task'[p][i].conn = "open")
            /\ ENABLED (TConnect(p, i) /\ task'[p][i].conn = "failed")
      [] task[p][i].pc = "publish" ->
            /\ ENABLED (TPublish(p, i) /\ task'[p][i].ok)
            /\ ENABLED (TPublish(p, i) /\ ~task'[p][i].ok)
      [] task[p][i].pc = "close" -> ENABLED TClose(p, i)
      [] task[p][i].pc = "append" -> ENABLED TAppend(p, i)
      [] task[p][i].pc = "count" -> ENABLED TCount(p, i)
      [] task[p][i].pc = "unlock" -> ENABLED TUnlock(p, i)
      [] task[p][i].pc = "exit" -> ENABLED TDone(p, i)
      [] OTHER -> TRUE

\* C13: a broadcast runs one attempt per relay-list entry, on that entry's
\* URL; an attempt that failed is over (no retry); whatever its siblings did,
\* an attempt can connect or fail to, publish or fail to, and finish; and
\* the broadcast returns only when every entry's attempt is done, never at
\* the first success.
C13_SiblingIndependenceFullJoin ==
    \A p \in Procs :
        /\ Len(task[p]) \in {0, Len(call[p].relays)}
        /\ \A i \in Tasks(p) :
              /\ task[p][i].pc # "none" => task[p][i].relayURL = call[p].relays[i]
              /\ task[p][i].conn = "failed" =>
                    (task[p][i].pc \in {"exit", "done"} /\ task[p][i].sent = NoEvent
                     /\ ~task[p][i].ok)
              /\ (task[p][i].sent # NoEvent /\ ~task[p][i].ok) =>
                    task[p][i].pc \in {"close", "exit", "done"}
              /\ CanProceed(p, i)
        /\ BroadcastReturned(p) =>
              /\ Len(task[p]) = Len(call[p].relays)
              /\ \A i \in Tasks(p) : task[p][i].pc = "done"

\* the first relay refused the connection, the second failed the publish,
\* the third took the event, and the broadcast returned
C13_Witness ==
    /\ pc[MainProc] = "pfnRet"
    /\ Len(task[MainProc]) = 3
    /\ task[MainProc][1].conn = "failed"
    /\ task[MainProc][2].conn = "closed" /\ ~task[MainProc][2].ok
    /\ task[MainProc][3].ok
    /\ ret[MainProc].relays = <<defaultRelays[3]>>


\* C14: a relay connection is open only while its attempt is between the
\* connect and the return of publishToRelay; when the broadcast has
\* returned no connection is open, whether the publish succeeded, failed or
\* timed out; an attempt whose connect failed never had a connection and
\* never sent.
C14_ConnectionsClosed ==
    \A p \in Procs :
        /\ \A i \in Tasks(p) :
              /\ task[p][i].conn = "open" <=> task[p][i].pc \in {"publish", "close"}
              /\ task[p][i].conn = "closed" =>
                    (task[p][i].sent # NoEvent
                     /\ task[p][i].pc \in {"lock", "append", "count", "unlock", "exit", "done"})
              /\ task[p][i].conn = "failed" => task[p][i].sent = NoEvent
              /\ task[p][i].pc \in {"exit", "done"} => task[p][i].conn \in {"failed", "closed"}
        /\ pc[p] \in {"pfnRet", "exited"} =>
              \A i \in Tasks(p) : task[p][i].conn \in {"failed", "closed"}

\* returned: one connection closed after a publish that failed, one after a
\* publish that succeeded, one never opened
C14_Witness ==
    /\ pc[MainProc] = "pfnRet"
    /\ Len(task[MainProc]) = 3
    /\ task[MainProc][1].conn = "closed" /\ ~task[MainProc][1].ok
    /\ task[MainProc][2].conn = "closed" /\ task[MainProc][2].ok
    /\ task[MainProc][3].conn = "failed"


\* C15: every broadcast returns in the end, with relays that never answer
\* too: each connect ends by the shared deadline and each publish by the
\* per-relay timeout, so every attempt finishes and the join completes with
\* a result.
C15_BroadcastReturns ==
    <>(/\ pc[MainProc] = "pfnRet"
       /\ ret[MainProc].err \in {"", AggregateErr, "failed to read file", "failed to sign event"}
       /\ \A i \in Tasks(MainProc) : task[MainProc][i].pc = "done")

\* returned with the aggregate error after three publishes that failed or
\* timed out
C15_Witness ==
    /\ pc[MainProc] = "pfnRet"
    /\ Len(task[MainProc]) = 3
    /\ \A i \in Tasks(MainProc) :
          task[MainProc][i].conn = "closed" /\ ~task[MainProc][i].ok
    /\ ret[MainProc].err = AggregateErr


\* the event of the call has been built
Built(p) == ev[p] # NoEvent

RootTag(p) == <<"e", call[p].rootEventIDHex, "", "root">>
ReplyTag(p) == <<"e", call[p].directParentEventIDHex, "", "reply">>

C17_UnguardedRootWrite ==
    [][\A p \in Procs :
          (pc[p] = "pfnRet" /\ pc'[p] = "exited" /\ loc'[p].exit = 0) =>
              /\ loc[p].rootID = ""
              /\ ret[p].id # ""
              /\ ReadRoot(KeyOf(p))' = ret[p].id]_vars

\* both publishes of the never-published file passed the check, both had
\* their first-version event accepted by the relay and both wrote the
\* pointer: it names the second event, the first is orphaned
C17_Witness ==
    /\ \A p \in Procs :
          /\ pc[p] = "exited" /\ loc[p].exit = 0
          /\ args[p].filePathArg = "f"
          /\ StoredRoot0(p) = ""
          /\ Len(task[p]) = 1 /\ task[p][1].ok
          /\ ETags(task[p][1].sent) = {}
    /\ ev["p1"].ID = "1"
    /\ ev["p2"].ID = "2"
    /\ ReadRoot(KeyTable["f"]) = "2"


\* the tasks between mu.Lock and mu.Unlock
InCritical(p) == {i \in Tasks(p) : task[p][i].pc \in {"append", "count", "unlock"}}

\* the accepted attempts that have appended their URL, and those that have
\* also counted themselves
Appended(p) ==
    {i \in Accepted(p) : task[p][i].pc \in {"count", "unlock", "exit", "done"}}
Counted(p) ==
    {i \in Accepted(p) : task[p][i].pc \in {"unlock", "exit", "done"}}

\* C18: under every interleaving of the relay tasks the success counter
\* equals the length of the succeeded-relay list whenever the lock is free;
\* at most the lock's holder is between lock and unlock; the list holds one
\* entry for each accepted attempt that has appended, each the URL of that
\* attempt, so no success is lost; and the caller takes the counter and the
\* list only once every task is done.
C18_AccumulatorConsistency ==
    \A p \in Procs :
        /\ InCritical(p) = (IF acc[p].mu = 0 THEN {} ELSE {acc[p].mu})
        /\ acc[p].mu = 0 => acc[p].successCount = Len(acc[p].successfulRelays)
        /\ Len(acc[p].successfulRelays) = Cardinality(Appended(p))
        /\ acc[p].successCount = Cardinality(Counted(p))
        /\ \A u \in {call[p].relays[j] : j \in 1..Len(call[p].relays)} :
               Count(acc[p].successfulRelays, u) =
                   Cardinality({i \in Appended(p) : task[p][i].relayURL = u})
        /\ \A j \in 1..Len(acc[p].successfulRelays) :
               \E i \in Accepted(p) :
                   task[p][i].relayURL = acc[p].successfulRelays[j]
                   /\ call[p].relays[i] = acc[p].successfulRelays[j]
        /\ (pc[p] = "pfnRet" /\ ev[p].Sig # "") =>
               /\ \A i \in Tasks(p) : task[p][i].pc = "done"
               /\ acc[p].mu = 0
               /\ acc[p].successCount = Cardinality(Accepted(p))
               /\ ret[p].err = "" => ret[p].relays = acc[p].successfulRelays

\* one task holds the lock between its append and its count while two
\* other accepted attempts are involved: one already counted, one waiting
\* for the lock
C18_Witness ==
    /\ Len(task[MainProc]) = 3
    /\ acc[MainProc].mu # 0
    /\ task[MainProc][acc[MainProc].mu].pc = "count"
    /\ Len(acc[MainProc].successfulRelays) = 2
    /\ acc[MainProc].successCount = 1
    /\ \E i \in Tasks(MainProc) : task[MainProc][i].pc = "lock" /\ task[MainProc][i].ok


\* the result the per-relay outcomes fix, whatever the schedule: the error,
\* the identifier, and how many times each URL is returned
OutcomeErr(p) == IF Accepted(p) = {} THEN AggregateErr ELSE ""
OutcomeID(p) == IF Accepted(p) = {} THEN "" ELSE ev[p].ID
OutcomeCount(p, u) == Cardinality({i \in Accepted(p) : call[p].relays[i] = u})

\* the URLs of the accepted attempts in the order of the relay list
RECURSIVE InListOrder(_, _)
InListOrder(p, n) ==
    IF n = 0 THEN <<>>
    ELSE InListOrder(p, n - 1) \o
         (IF task[p][n].ok THEN <<call[p].relays[n]>> ELSE <<>>)

\* C19: for given per-relay outcomes the result of a broadcast that ran its
\* tasks is the same under every interleaving: error or not, the event
\* identifier and, for each URL, the number of times it is returned depend
\* on the outcomes alone; the returned list is a rearrangement of the
\* accepted URLs.
C19_SchedulingIndependence ==
    \A p \in Procs :
        (pc[p] = "pfnRet" /\ ev[p].Sig # "") =>
            /\ ret[p].err = OutcomeErr(p)
            /\ ret[p].id = OutcomeID(p)
            /\ Len(ret[p].relays) = Cardinality(Accepted(p))
            /\ \A j \in 1..Len(call[p].relays) :
                  Count(ret[p].relays, call[p].relays[j]) =
                      OutcomeCount(p, call[p].relays[j])
            /\ \A j \in 1..Len(ret[p].relays) :
                  Count(ret[p].relays, ret[p].relays[j]) =
                      Count(InListOrder(p, Len(task[p])), ret[p].relays[j])

\* the third and the first relay accepted, the second did not, and the
\* list comes back in the order the tasks took the lock, not list order
C19_Witness ==
    /\ pc[MainProc] = "pfnRet"
    /\ call[MainProc].relays = defaultRelays
    /\ Len(task[MainProc]) = 3
    /\ Accepted(MainProc) = {1, 3}
    /\ ret[MainProc].relays = <<defaultRelays[3], defaultRelays[1]>>
    /\ ret[MainProc].relays # InListOrder(MainProc, 3)


\* the base filename each path argument resolves to
BaseTable == [a \in PathArgs |-> Base(expandPath(a))]

\* the path arguments with the base filename of the command's path
Aliases(p) == {b \in PathArgs : BaseTable[b] = BaseTable[args[p].filePathArg]}

\* the root pointer a path argument resolved to when the command started,
\* and now
RootAtStart(p, b) ==
    LET f == disk0[p].root[KeyTable[b]]
    IN  IF f.exists THEN TrimSpace(f.data) ELSE ""
RootNow(b) == ReadRoot(KeyTable[b])

\* C20: the chain pointers are keyed by base filename: a publish is refused
\* without a broadcast when any path of the same base filename has a
\* non-empty root; a commit hands relays only events whose root and reply
\* tags name the root stored under every path of the same base filename;
\* a publish that completes with status 0 makes every such path read the
\* new identifier and leaves the root of every other base filename as it
\* was.
C20_BasenameKeying ==
    \A p \in Procs :
        Active(p) =>
            /\ \A b \in Aliases(p) :
                  /\ (args[p].command = "publish" /\ RootAtStart(p, b) # "")
                         => (NoBroadcast(p) /\ NoNetwork(p))
                  /\ args[p].command = "commit" =>
                         \A i \in Tasks(p) :
                             task[p][i].sent # NoEvent =>
                                 /\ RootNow(b) # ""
                                 /\ HasTag(task[p][i].sent, <<"e", RootNow(b), "", "root">>)
                                 /\ HasTag(task[p][i].sent, <<"e", RootNow(b), "", "reply">>)
                  /\ (args[p].command = "publish" /\ pc[p] = "exited" /\ loc[p].exit = 0
                      /\ RootAtStart(p, b) = "")
                         => (RootNow(b) = ev[p].ID /\ ev[p].ID # "")
            /\ \A b \in PathArgs \ Aliases(p) :
                  root[KeyTable[b]] = disk0[p].root[KeyTable[b]]

\* a commit given the path d/f is anchored to the root stored for f, while
\* g has none
C20_Witness ==
    /\ args[MainProc].command = "commit"
    /\ args[MainProc].filePathArg = "d/f"
    /\ RootNow("f") = "1"
    /\ RootNow("g") = ""
    /\ Len(task[MainProc]) = 2
    /\ task[MainProc][2].ok
    /\ HasTag(task[MainProc][2].sent, <<"e", "1", "", "root">>)

====
